---- MODULE Spec2Model ----
(***************************************************************************)
(* Model of the Todo-Queue-CLI core: the append (AddCommand) and           *)
(* change-priority (PrioCommand) operations over the project file, with    *)
(* the helpers of Command (base.py) they use.                              *)
(*                                                                         *)
(* Text is modelled as a sequence of one-character strings, so that        *)
(* strip/lower/split/regex are computed character by character.            *)
(***************************************************************************)
EXTENDS Integers, Sequences, FiniteSets, TLC

VARIABLES file, pre, cmd, input, outcome, ret, ops, proc, log

vars == <<file, pre, cmd, input, outcome, ret, ops, proc, log>>

(***************************************************************************)
(* Bounds                                                                  *)
(***************************************************************************)
MaxOps == 2
MaxInitTodos == 2
MaxIdLen == 3
MaxLocTodos == 2
MaxPrioLen == 2
MaxParts == 3
MaxSortLen == 3
MaxSavedTodos == 2
MaxWords == 4
MaxFlagParts == 4
MaxSearchTodos == 3
MaxQueryLen == 2

(***************************************************************************)
(* Characters and Python str primitives                                    *)
(***************************************************************************)
UpperSeq == <<"A","B","C","D","E","F","G","H","I","J","K","L","M",
              "N","O","P","Q","R","S","T","U","V","W","X","Y","Z">>
LowerSeq == <<"a","b","c","d","e","f","g","h","i","j","k","l","m",
              "n","o","p","q","r","s","t","u","v","w","x","y","z">>
DigitSeq == <<"0","1","2","3","4","5","6","7","8","9">>

IsUpper(c) == \E i \in 1..26 : UpperSeq[i] = c
IsLower(c) == \E i \in 1..26 : LowerSeq[i] = c
IsDigit(c) == \E i \in 1..10 : DigitSeq[i] = c
DigitVal(c) == (CHOOSE i \in 1..10 : DigitSeq[i] = c) - 1

\* str.strip() / regex \s: the whitespace characters of the alphabet
IsSpace(c) == c \in {" ", "\t"}

\* regex \w
IsWord(c) == IsUpper(c) \/ IsLower(c) \/ IsDigit(c) \/ c = "_"

char_lower(c) == IF IsUpper(c) THEN LowerSeq[CHOOSE i \in 1..26 : UpperSeq[i] = c] ELSE c
char_upper(c) == IF IsLower(c) THEN UpperSeq[CHOOSE i \in 1..26 : LowerSeq[i] = c] ELSE c

str_lower(s) == [i \in 1..Len(s) |-> char_lower(s[i])]

RECURSIVE str_lstrip(_)
str_lstrip(s) ==
    IF s # << >> /\ IsSpace(Head(s)) THEN str_lstrip(Tail(s)) ELSE s

RECURSIVE str_rstrip(_)
str_rstrip(s) ==
    IF s # << >> /\ IsSpace(s[Len(s)]) THEN str_rstrip(SubSeq(s, 1, Len(s) - 1)) ELSE s

str_strip(s) == str_rstrip(str_lstrip(s))

\* s.split(sep): every separator cuts, empty pieces are kept
RECURSIVE str_split(_, _)
str_split(s, sep) ==
    IF \A i \in 1..Len(s) : s[i] # sep
    THEN <<s>>
    ELSE LET i == CHOOSE k \in 1..Len(s) : s[k] = sep /\ \A j \in 1..(k-1) : s[j] # sep
         IN  <<SubSeq(s, 1, i - 1)>> \o str_split(SubSeq(s, i + 1, Len(s)), sep)

\* s.rsplit(sep, 1): cut at the last separator only
str_rsplit1(s, sep) ==
    IF \A i \in 1..Len(s) : s[i] # sep
    THEN <<s>>
    ELSE LET i == CHOOSE k \in 1..Len(s) : s[k] = sep /\ \A j \in (k+1)..Len(s) : s[j] # sep
         IN  <<SubSeq(s, 1, i - 1), SubSeq(s, i + 1, Len(s))>>

\* int(s) on a str: surrounding whitespace, an optional sign, decimal digits
\* with single underscores between digits; anything else is a ValueError
RECURSIVE DigitsValue(_, _)
DigitsValue(s, acc) ==
    IF s = << >> THEN acc
    ELSE IF Head(s) = "_" THEN DigitsValue(Tail(s), acc)
    ELSE DigitsValue(Tail(s), 10 * acc + DigitVal(Head(s)))

py_int(s) ==
    LET t    == str_strip(s)
        neg  == t # << >> /\ Head(t) = "-"
        body == IF t # << >> /\ Head(t) \in {"-", "+"} THEN Tail(t) ELSE t
        good == /\ body # << >>
                /\ \A i \in 1..Len(body) : IsDigit(body[i]) \/ body[i] = "_"
                /\ IsDigit(body[1]) /\ IsDigit(body[Len(body)])
                /\ \A i \in 1..(Len(body) - 1) : ~(body[i] = "_" /\ body[i+1] = "_")
    IN  IF good
        THEN [ok |-> TRUE, val |-> IF neg THEN 0 - DigitsValue(body, 0) ELSE DigitsValue(body, 0)]
        ELSE [ok |-> FALSE, val |-> 0]

(***************************************************************************)
(* Command.__init__ constants                                              *)
(***************************************************************************)
UNTITLED_NAME == "Untitled"
low == <<"l","o","w">>
medium == <<"m","e","d","i","u","m">>
high == <<"h","i","g","h">>
PRIORITY_LEVELS == <<low, medium, high>>
DEFAULT_PRIORITY == medium

(***************************************************************************)
(* Priority policy (base.py)                                               *)
(***************************************************************************)
InLevels(p) == \E i \in 1..Len(PRIORITY_LEVELS) : PRIORITY_LEVELS[i] = p

\* validate_priority comparing the text as typed, without lowercasing it
validate_priority_case_sensitive(priority) ==
    IF ~InLevels(priority)
    THEN [raised |-> TRUE, value |-> priority]
    ELSE [raised |-> FALSE, value |-> priority]

\* returns the lowercased value, or raises ValueError
validate_priority(priority) ==
    LET priority_lower == str_lower(priority)
    IN  IF ~InLevels(priority_lower)
        THEN [raised |-> TRUE, value |-> priority]
        ELSE [raised |-> FALSE, value |-> priority_lower]

\* Command.validate_title: raises ValueError on an empty or over-long title
validate_title(title) ==
    IF title = << >> \/ str_strip(title) = << >>
    THEN [raised |-> TRUE, error |-> "Title cannot be empty"]
    ELSE IF Len(str_strip(title)) > 500
    THEN [raised |-> TRUE, error |-> "Title cannot exceed 500 characters"]
    ELSE [raised |-> FALSE, error |-> ""]

(***************************************************************************)
(* The inline flag: re.search / re.sub of r'--priority=(\w+)', IGNORECASE  *)
(***************************************************************************)
priority_pattern == <<"-","-","p","r","i","o","r","i","t","y","=">>
PatLen == Len(priority_pattern)

\* last index of the maximal run of \w characters that starts at j
RECURSIVE WordRunEnd(_, _)
WordRunEnd(s, j) ==
    IF j + 1 <= Len(s) /\ IsWord(s[j + 1]) THEN WordRunEnd(s, j + 1) ELSE j

\* index of the last character of a match starting at i, 0 when none starts there
MatchEnd(s, i) ==
    IF /\ i + PatLen <= Len(s)
       /\ str_lower(SubSeq(s, i, i + PatLen - 1)) = priority_pattern
       /\ IsWord(s[i + PatLen])
    THEN WordRunEnd(s, i + PatLen)
    ELSE 0

\* re.search: the leftmost match
re_search(s) ==
    IF \E i \in 1..Len(s) : MatchEnd(s, i) > 0
    THEN LET i == CHOOSE k \in 1..Len(s) :
                     MatchEnd(s, k) > 0 /\ \A j \in 1..(k-1) : MatchEnd(s, j) = 0
         IN  [found |-> TRUE, group1 |-> SubSeq(s, i + PatLen, MatchEnd(s, i))]
    ELSE [found |-> FALSE, group1 |-> << >>]

\* re.sub(pattern, '', s): drop every non-overlapping match, left to right
RECURSIVE re_sub_from(_, _)
re_sub_from(s, i) ==
    IF i > Len(s) THEN << >>
    ELSE IF MatchEnd(s, i) > 0 THEN re_sub_from(s, MatchEnd(s, i) + 1)
    ELSE <<s[i]>> \o re_sub_from(s, i + 1)

re_sub(s) == re_sub_from(s, 1)

(***************************************************************************)
(* AddCommand (add.py) and the input helpers of Command                    *)
(***************************************************************************)
\* <<title_without_flag, priority>>
parse_priority_from_input(input_string) ==
    LET match == re_search(input_string)
    IN  IF match.found
        THEN [title |-> str_strip(re_sub(input_string)), priority |-> str_lower(match.group1)]
        ELSE [title |-> str_strip(input_string), priority |-> DEFAULT_PRIORITY]

\* the command attributes are the text after the command word; the empty
\* text stands for both None and ''
get_titles_input(titles_input) ==
    LET titles == str_split(titles_input, ",")
        cleaned_titles == SelectSeq([i \in 1..Len(titles) |-> str_strip(titles[i])],
                                    LAMBDA t : t # << >>)
    IN  IF titles_input = << >>
        THEN [exit |-> "no_input", titles |-> << >>]
        ELSE IF cleaned_titles = << >>
        THEN [exit |-> "no_valid_input", titles |-> << >>]
        ELSE [exit |-> "none", titles |-> cleaned_titles]

NewItem(item) ==
    LET parsed == parse_priority_from_input(item)
    IN  [done |-> FALSE, title |-> parsed.title, priority |-> parsed.priority]

\* update_todos reading the priority flag from the whole input for every item
update_todos_shared_priority(todos, titles_input) ==
    LET got == get_titles_input(titles_input)
        shared == parse_priority_from_input(titles_input).priority
    IN  IF todos.type # "list"
        THEN [exit |-> "crash", todos |-> << >>]
        ELSE IF got.exit # "none"
        THEN [exit |-> got.exit, todos |-> << >>]
        ELSE [exit |-> "none",
              todos |-> todos.items \o
                        [i \in 1..Len(got.titles) |->
                            [NewItem(got.titles[i]) EXCEPT !.priority = shared]]]

\* update_todos putting the new items in front of the existing ones
update_todos_prepend(todos, titles_input) ==
    LET got == get_titles_input(titles_input)
    IN  IF todos.type # "list"
        THEN [exit |-> "crash", todos |-> << >>]
        ELSE IF got.exit # "none"
        THEN [exit |-> got.exit, todos |-> << >>]
        ELSE [exit |-> "none",
              todos |-> [i \in 1..Len(got.titles) |-> NewItem(got.titles[i])] \o todos.items]

\* todos is the value found under 'todos': [type, items]; only a list has copy() and append()
update_todos(todos, titles_input) ==
    LET got == get_titles_input(titles_input)
    IN  IF todos.type # "list"
        THEN [exit |-> "crash", todos |-> << >>]
        ELSE IF got.exit # "none"
        THEN [exit |-> got.exit, todos |-> << >>]
        ELSE [exit |-> "none",
              todos |-> todos.items \o [i \in 1..Len(got.titles) |-> NewItem(got.titles[i])]]

\* needle in haystack, for str: needle is a contiguous part of haystack
str_in(needle, haystack) ==
    \E i \in 0..(Len(haystack) - Len(needle)) :
        SubSeq(haystack, i + 1, i + Len(needle)) = needle

\* find_todos_by_title whose partial matching looks at the start of the title only
find_todos_by_title_prefix(todos, title, exact_match) ==
    LET title_lower == str_lower(title)
    IN  SelectSeq(todos, LAMBDA todo :
            IF exact_match
            THEN str_lower(todo.title) = title_lower
            ELSE /\ Len(title_lower) <= Len(todo.title)
                 /\ SubSeq(str_lower(todo.title), 1, Len(title_lower)) = title_lower)

\* the todos matching a title, in list order
find_todos_by_title(todos, title, exact_match) ==
    LET title_lower == str_lower(title)
    IN  SelectSeq(todos, LAMBDA todo :
            IF exact_match
            THEN str_lower(todo.title) = title_lower
            ELSE str_in(title_lower, str_lower(todo.title)))

(***************************************************************************)
(* PrioCommand (prio.py)                                                   *)
(***************************************************************************)
\* <<task_id, priority>>, or sys.exit(1) on a missing or one-part input
parse_prio_input(attributes) ==
    LET parts == str_rsplit1(attributes, " ")
    IN  IF attributes = << >>
        THEN [exit |-> "usage", task_id |-> << >>, priority |-> << >>]
        ELSE IF Len(parts) # 2
        THEN [exit |-> "one_part", task_id |-> << >>, priority |-> << >>]
        ELSE [exit |-> "none", task_id |-> str_strip(parts[1]), priority |-> str_strip(parts[2])]

NoTodo == [done |-> FALSE, title |-> << >>]
NotFound == [found |-> FALSE, index |-> 0, todo |-> NoTodo]

\* the locator taking the typed number as the 0-based slot
find_todo_by_identifier_zero_based(todos, identifier) ==
    LET parsed == py_int(identifier)
        list_index == parsed.val
        identifier_lower == str_lower(identifier)
        Matches(i) == str_lower(todos[i].title) = identifier_lower
    IN  IF parsed.ok
        THEN IF 0 <= list_index /\ list_index < Len(todos)
             THEN [found |-> TRUE, index |-> list_index, todo |-> todos[list_index + 1]]
             ELSE NotFound
        ELSE IF \E i \in 1..Len(todos) : Matches(i)
             THEN LET i == CHOOSE k \in 1..Len(todos) :
                              Matches(k) /\ \A j \in 1..(k-1) : ~Matches(j)
                  IN  [found |-> TRUE, index |-> i - 1, todo |-> todos[i]]
             ELSE NotFound

\* the locator returning the last task with the title instead of the first
find_todo_by_identifier_last_match(todos, identifier) ==
    LET parsed == py_int(identifier)
        list_index == parsed.val - 1
        identifier_lower == str_lower(identifier)
        Matches(i) == str_lower(todos[i].title) = identifier_lower
    IN  IF parsed.ok
        THEN IF 0 <= list_index /\ list_index < Len(todos)
             THEN [found |-> TRUE, index |-> list_index, todo |-> todos[list_index + 1]]
             ELSE NotFound
        ELSE IF \E i \in 1..Len(todos) : Matches(i)
             THEN LET i == CHOOSE k \in 1..Len(todos) :
                              Matches(k) /\ \A j \in (k+1)..Len(todos) : ~Matches(j)
                  IN  [found |-> TRUE, index |-> i - 1, todo |-> todos[i]]
             ELSE NotFound

\* the locator searching the titles when the typed number is out of range
find_todo_by_identifier_title_fallback(todos, identifier) ==
    LET parsed == py_int(identifier)
        list_index == parsed.val - 1
        identifier_lower == str_lower(identifier)
        Matches(i) == str_lower(todos[i].title) = identifier_lower
    IN  IF parsed.ok /\ 0 <= list_index /\ list_index < Len(todos)
        THEN [found |-> TRUE, index |-> list_index, todo |-> todos[list_index + 1]]
        ELSE IF \E i \in 1..Len(todos) : Matches(i)
             THEN LET i == CHOOSE k \in 1..Len(todos) :
                              Matches(k) /\ \A j \in 1..(k-1) : ~Matches(j)
                  IN  [found |-> TRUE, index |-> i - 1, todo |-> todos[i]]
             ELSE NotFound

\* (list_index, todo) with list_index 0-based as in the code, or (None, None);
\* todos[list_index] of the code is todos[list_index + 1] here
find_todo_by_identifier(todos, identifier) ==
    LET parsed == py_int(identifier)
        list_index == parsed.val - 1
        identifier_lower == str_lower(identifier)
        Matches(i) == str_lower(todos[i].title) = identifier_lower
    IN  IF parsed.ok
        THEN IF 0 <= list_index /\ list_index < Len(todos)
             THEN [found |-> TRUE, index |-> list_index, todo |-> todos[list_index + 1]]
             ELSE NotFound
        ELSE IF \E i \in 1..Len(todos) : Matches(i)
             THEN LET i == CHOOSE k \in 1..Len(todos) :
                              Matches(k) /\ \A j \in 1..(k-1) : ~Matches(j)
                  IN  [found |-> TRUE, index |-> i - 1, todo |-> todos[i]]
             ELSE NotFound

\* todo.copy() with the 'priority' key set
SetKey(todo, key, value) ==
    [k \in DOMAIN todo \cup {key} |-> IF k = key THEN value ELSE todo[k]]

\* update_todo_priority building a fresh record instead of copying the task
update_todo_priority_rebuild(todo, new_priority) ==
    LET validated == validate_priority(new_priority)
    IN  IF validated.raised
        THEN [exit |-> "invalid_priority", todo |-> todo]
        ELSE [exit |-> "none",
              todo |-> [done |-> FALSE, title |-> todo.title, priority |-> validated.value]]

update_todo_priority(todo, new_priority) ==
    LET validated == validate_priority(new_priority)
    IN  IF validated.raised
        THEN [exit |-> "invalid_priority", todo |-> todo]
        ELSE [exit |-> "none", todo |-> SetKey(todo, "priority", validated.value)]

(***************************************************************************)
(* Sorting (base.py)                                                       *)
(***************************************************************************)
priority_rank == (high :> 0) @@ (medium :> 1) @@ (low :> 2)

\* todo.get(key, default)
todo_get(todo, key, default) == IF key \in DOMAIN todo THEN todo[key] ELSE default

\* priority_rank.get(priority, 1)
priority_value(priority) ==
    IF priority \in DOMAIN priority_rank THEN priority_rank[priority] ELSE 1

\* False sorts before True
bool_order(b) == IF b THEN 1 ELSE 0

\* the key with the priority rank in front of the completion
sort_key_priority_first(todo) ==
    << priority_value(todo_get(todo, "priority", DEFAULT_PRIORITY)),
       bool_order(todo_get(todo, "done", FALSE)) >>

\* the tuple (is_done, priority_rank)
sort_key(todo) ==
    << bool_order(todo_get(todo, "done", FALSE)),
       priority_value(todo_get(todo, "priority", DEFAULT_PRIORITY)) >>

\* tuple comparison k1 < k2
key_less(k1, k2) == k1[1] < k2[1] \/ (k1[1] = k2[1] /\ k1[2] < k2[2])

\* sorted(todos, key=sort_key) builds a new list and is stable: each element
\* goes behind the elements already placed whose key is not greater
RECURSIVE insert_stable(_, _)
insert_stable(placed, todo) ==
    IF placed = << >> THEN <<todo>>
    ELSE IF key_less(sort_key(todo), sort_key(Head(placed))) THEN <<todo>> \o placed
    ELSE <<Head(placed)>> \o insert_stable(Tail(placed), todo)

RECURSIVE sorted_from(_, _)
sorted_from(todos, placed) ==
    IF todos = << >> THEN placed
    ELSE sorted_from(Tail(todos), insert_stable(placed, Head(todos)))

sort_todos_by_priority(todos) == sorted_from(todos, << >>)

(***************************************************************************)
(* The project file                                                        *)
(*   kind "absent": no file; "text": content json.load rejects;            *)
(*   "json": a parsed document, data = [type, items]                       *)
(*     type "dict": items maps the keys present among name/todos           *)
(*     type "list": a top-level array                                      *)
(*   the value under 'todos' is [type |-> "list", items |-> tasks] or      *)
(*   [type |-> "null", items |-> <<>>]; a task maps its keys to values     *)
(***************************************************************************)
NoData == [type |-> "none", items |-> << >>]
Absent == [kind |-> "absent", data |-> NoData]
Unparseable == [kind |-> "text", data |-> NoData]
JsonFile(d) == [kind |-> "json", data |-> d]

ListVal(seq) == [type |-> "list", items |-> seq]
NullVal == [type |-> "null", items |-> << >>]

\* the dict {'name': name, 'todos': todos}
Project(name, todos) == [type |-> "dict", items |-> [name |-> name, todos |-> todos]]

HasKey(data, key) == data.type = "dict" /\ key \in DOMAIN data.items

\* name = data['name'], 'Untitled' on any exception
data_name(data) == IF HasKey(data, "name") THEN data.items["name"] ELSE UNTITLED_NAME

\* the todos as get_todos_list hands them out: 'priority' filled in where missing
data_todos_with_default(data) ==
    IF HasKey(data, "todos")
    THEN [type |-> data.items["todos"].type,
          items |-> [i \in 1..Len(data.items["todos"].items) |->
                        IF "priority" \in DOMAIN data.items["todos"].items[i]
                        THEN data.items["todos"].items[i]
                        ELSE SetKey(data.items["todos"].items[i], "priority", DEFAULT_PRIORITY)]]
    ELSE ListVal(<< >>)

\* todos = data['todos'], [] on any exception
data_todos(data) == IF HasKey(data, "todos") THEN data.items["todos"] ELSE ListVal(<< >>)

\* Command.get_project_name applied to a file: read_project_file gives None
\* for a missing file and exits on unparseable text; data.get exists on an
\* object only
get_project_name(f) ==
    CASE f.kind = "absent" -> [exit |-> "none", name |-> UNTITLED_NAME]
      [] f.kind = "text" -> [exit |-> "read_error", name |-> ""]
      [] f.data.type # "dict" -> [exit |-> "crash", name |-> ""]
      [] OTHER ->
           LET name == IF HasKey(f.data, "name") THEN f.data.items["name"] ELSE ""
           IN  [exit |-> "none", name |-> IF name # "" THEN name ELSE UNTITLED_NAME]

\* update_project: open(..., 'w') then json.dump. The open can fail and leave
\* the file as it was; a failure inside the dump leaves a truncated document,
\* which no longer parses.
WriteResults == {"written", "open_failed", "dump_failed"}

update_project(f, new_data, w) ==
    CASE w = "written"     -> JsonFile(new_data)
      [] w = "open_failed" -> f
      [] w = "dump_failed" -> Unparseable

(***************************************************************************)
(* The two run() methods up to the save: what they report and what they    *)
(* hand to update_project                                                  *)
(***************************************************************************)
Stop(status, code) == [status |-> status, exit |-> code, save |-> FALSE, new_data |-> NoData]
Save(new_data) == [status |-> "ok", exit |-> 0, save |-> TRUE, new_data |-> new_data]

AddCommand_run(f, attributes) ==
    IF f.kind = "absent" THEN Stop("ask_create_project", 0)
    ELSE IF f.kind = "text" THEN Stop("read_error", 1)
    ELSE LET name == data_name(f.data)
             todos == data_todos(f.data)
             updated == update_todos(todos, attributes)
         IN  CASE updated.exit = "crash" -> Stop("crash", 1)
               [] updated.exit = "no_input" -> Stop("no_input", 1)
               [] updated.exit = "no_valid_input" -> Stop("no_valid_input", 1)
               [] OTHER -> Save(Project(name, ListVal(updated.todos)))

\* the change-priority run with the save moved before the validation
PrioCommand_run_save_first(f, attributes) ==
    IF f.kind = "absent" THEN Stop("project_not_found", 1)
    ELSE IF f.kind = "text" THEN Stop("read_error", 1)
    ELSE LET name == data_name(f.data)
             todos == data_todos(f.data)
             parsed == parse_prio_input(attributes)
             located == find_todo_by_identifier(todos.items, parsed.task_id)
             updated == update_todo_priority(located.todo, parsed.priority)
             written == SetKey(located.todo, "priority", parsed.priority)
         IN  IF parsed.exit # "none" THEN Stop(parsed.exit, 1)
             ELSE IF todos.type # "list" THEN Stop("crash", 1)
             ELSE IF ~located.found THEN Stop("task_not_found", 1)
             ELSE IF updated.exit # "none"
             THEN [status |-> "invalid_priority", exit |-> 1, save |-> TRUE,
                   new_data |-> Project(name,
                      ListVal([todos.items EXCEPT ![located.index + 1] = written]))]
             ELSE Save(Project(name,
                      ListVal([todos.items EXCEPT ![located.index + 1] = updated.todo])))

\* a 'todos' value that is no list has no len() and cannot be iterated: the
\* locator raises TypeError, except that `0 <= list_index < len(todos)` never
\* evaluates len() for a position below 1
PrioCommand_run(f, attributes) ==
    IF f.kind = "absent" THEN Stop("project_not_found", 1)
    ELSE IF f.kind = "text" THEN Stop("read_error", 1)
    ELSE LET name == data_name(f.data)
             todos == data_todos(f.data)
             parsed == parse_prio_input(attributes)
             position == py_int(parsed.task_id)
             located == find_todo_by_identifier(todos.items, parsed.task_id)
             updated == update_todo_priority(located.todo, parsed.priority)
         IN  IF parsed.exit # "none" THEN Stop(parsed.exit, 1)
             ELSE IF todos.type # "list" /\ ~(position.ok /\ position.val - 1 < 0)
             THEN Stop("crash", 1)
             ELSE IF ~located.found THEN Stop("task_not_found", 1)
             ELSE IF updated.exit # "none" THEN Stop("invalid_priority", 1)
             ELSE Save(Project(name,
                      ListVal([todos.items EXCEPT ![located.index + 1] = updated.todo])))

(***************************************************************************)
(* Inputs of the model                                                     *)
(***************************************************************************)
SeqsUpTo(S, n) == UNION {[1..k -> S] : k \in 0..n}

RECURSIVE Flatten(_)
Flatten(parts) == IF parts = << >> THEN << >> ELSE Head(parts) \o Flatten(Tail(parts))

in_empty == << >>
in_commas == <<" ",","," ">>
in_a == <<"a">>
in_two == <<" ","A"," ",",",","," ","b"," ">>
in_flag == <<"a"," ","-","-","p","r","i","o","r","i","t","y","=","h","i","g","h">>
in_flag_upper == <<"b"," ","-","-","P","R","I","O","R","I","T","Y","=","L","o","w">>
in_flag_only == <<"-","-","p","r","i","o","r","i","t","y","=","h","i","g","h">>
in_flag_bad == <<"a"," ","-","-","p","r","i","o","r","i","t","y","=","u","r","g","e","n","t">>
in_example == <<"B","u","y"," ","m","i","l","k"," ","-","-","p","r","i","o","r","i","t","y","=","h","i","g","h",","," ","D","o"," ","l","a","u","n","d","r","y">>
pin_one_part == <<"h","i","g","h">>
pin_1_high == <<"1"," ","h","i","g","h">>
pin_1_LOW == <<"1"," ","L","O","W">>
pin_2_medium == <<"2"," "," ","M","e","d","i","u","m">>
pin_0_high == <<"0"," ","h","i","g","h">>
pin_a_low == <<"a"," ","l","o","w">>
pin_example == <<"B","u","y"," ","m","i","l","k"," ","L","O","W">>
pin_1_bad == <<"1"," ","u","r","g","e","n","t">>
pin_none_high == <<"z","z"," ","h","i","g","h">>
fr_a == <<"a">>
fr_1 == <<"1">>
fr_space == <<" ">>
fr_comma == <<",">>
fr_flag == <<"-","-","p","r","i","o","r","i","t","y","=">>
fr_high == <<"h","i","g","h">>
fr_LOW == <<"L","O","W">>
fr_x == <<"x">>

\* the command lines tried, in the order they are tried
AddLines == <<in_a, in_two, in_flag, in_flag_upper, in_flag_only, in_flag_bad, in_example,
              in_commas, in_empty>>
PrioLines == <<pin_1_high, pin_1_LOW, pin_2_medium, pin_0_high, pin_a_low, pin_example,
               pin_1_bad, pin_none_high, pin_one_part, in_empty>>
AddInputs == {AddLines[i] : i \in DOMAIN AddLines}
PrioInputs == {PrioLines[i] : i \in DOMAIN PrioLines}

\* command lines put together from a few words, the flag and the separators
Fragments == {fr_a, fr_1, fr_space, fr_comma, fr_flag, fr_high, fr_LOW, fr_x}
OnceInputs == {Flatten(p) : p \in SeqsUpTo(Fragments, MaxParts)} \cup AddInputs \cup PrioInputs

title_a == <<"a">>
title_A == <<"A">>
title_1 == <<"1">>
title_buy_milk == <<"B","u","y"," ","m","i","l","k">>
title_do_laundry == <<"D","o"," ","l","a","u","n","d","r","y">>
project_name == "Groceries"

\* tasks as a project file may hold them before any operation: the first is a
\* legacy record without 'priority'
task_a == [done |-> FALSE, title |-> title_a]
task_A == [done |-> TRUE, title |-> title_A, priority |-> low]
task_buy_milk == [done |-> FALSE, title |-> title_buy_milk, priority |-> medium]
InitTasks == {task_a, task_A, task_buy_milk}

InitTodos == SeqsUpTo(InitTasks, MaxInitTodos)

MalformedFiles ==
    { Unparseable,
      JsonFile(ListVal(<<task_buy_milk>>)),                          \* a top-level array
      JsonFile([type |-> "dict", items |-> [name |-> project_name]]), \* no 'todos'
      JsonFile(Project(project_name, NullVal)) }                     \* "todos": null

InitFiles ==
    {Absent} \cup MalformedFiles
    \cup {JsonFile(Project(project_name, ListVal(t))) : t \in InitTodos}
    \cup {JsonFile(Project("", ListVal(t))) : t \in {<< >>, <<task_a>>}}
    \cup {JsonFile([type |-> "dict", items |-> [todos |-> ListVal(t)]]) :
             t \in {<<task_buy_milk>>, <<task_A, task_a>>}}

OnceFiles ==
    { Absent, Unparseable,
      JsonFile(Project(project_name, NullVal)),
      JsonFile(Project(project_name, ListVal(<< >>))),
      JsonFile(Project(project_name, ListVal(<<task_a, task_A, task_buy_milk>>))),
      JsonFile(Project("", ListVal(<<task_A, task_a>>))),
      JsonFile([type |-> "dict", items |-> [todos |-> ListVal(<<task_buy_milk, task_a>>)]]) }

NoOutcome == [status |-> "none", exit |-> 0, saves |-> 0]

\* no invocation is tracked step by step
NoProcs == << >>

(***************************************************************************)
(* The text of the project file: json.dump(new_data, sort_keys=True,       *)
(* indent=4, ensure_ascii=False) and json.load, character by character.    *)
(* The documents are the ones of the file model above: an object with      *)
(* 'name' and 'todos', tasks with 'done', 'title' and maybe 'priority'.    *)
(***************************************************************************)
project_name_text == <<"G","r","o","c","e","r","i","e","s">>
untitled_name_text == <<"U","n","t","i","t","l","e","d">>

\* the characters of a project name, and the name a text spells
NameText(name) ==
    CASE name = project_name -> project_name_text
      [] name = UNTITLED_NAME -> untitled_name_text
      [] name = "" -> << >>

TextName(text) ==
    CASE text = project_name_text -> project_name
      [] text = untitled_name_text -> UNTITLED_NAME
      [] text = << >> -> ""

\* the keys in sort_keys order, and their characters
SortedKeys == <<"done", "name", "priority", "title", "todos">>

KeyText(key) ==
    CASE key = "done" -> <<"d","o","n","e">>
      [] key = "name" -> <<"n","a","m","e">>
      [] key = "priority" -> <<"p","r","i","o","r","i","t","y">>
      [] key = "title" -> <<"t","i","t","l","e">>
      [] key = "todos" -> <<"t","o","d","o","s">>

TextKey(text) == CHOOSE k \in {"done", "name", "priority", "title", "todos"} : KeyText(k) = text

json_true == <<"t","r","u","e">>
json_false == <<"f","a","l","s","e">>
json_null == <<"n","u","l","l">>

\* the encoder's escapes for the characters of the alphabet
dump_char(c) ==
    CASE c = "\"" -> <<"\\", "\"">>
      [] c = "\\" -> <<"\\", "\\">>
      [] c = "\t" -> <<"\\", "t">>
      [] c = "\n" -> <<"\\", "n">>
      [] OTHER -> <<c>>

dump_str(text) == <<"\"">> \o Flatten([i \in 1..Len(text) |-> dump_char(text[i])]) \o <<"\"">>

dump_indent(level) == [i \in 1..level |-> " "]

\* items on lines of their own between the brackets, ',' after all but the last
RECURSIVE dump_lines(_, _)
dump_lines(items, level) ==
    IF items = << >> THEN << >>
    ELSE <<"\n">> \o dump_indent(level) \o Head(items)
         \o (IF Len(items) > 1 THEN <<",">> ELSE << >>) \o dump_lines(Tail(items), level)

dump_container(open, items, close, level) ==
    IF items = << >> THEN <<open, close>>
    ELSE <<open>> \o dump_lines(items, level + 4) \o <<"\n">> \o dump_indent(level) \o <<close>>

dump_member(key, text) == dump_str(KeyText(key)) \o <<":", " ">> \o text

dump_task(task, level) ==
    LET keys == SelectSeq(SortedKeys, LAMBDA k : k \in DOMAIN task)
        Value(k) == IF k = "done" THEN (IF task[k] THEN json_true ELSE json_false)
                    ELSE dump_str(task[k])
    IN  dump_container("{", [i \in 1..Len(keys) |-> dump_member(keys[i], Value(keys[i]))], "}", level)

dump_todos(todos, level) ==
    IF todos.type = "null" THEN json_null
    ELSE dump_container("[", [i \in 1..Len(todos.items) |-> dump_task(todos.items[i], level + 4)],
                        "]", level)

json_dump(data) ==
    IF data.type = "list" THEN dump_todos(data, 0)
    ELSE LET keys == SelectSeq(SortedKeys, LAMBDA k : k \in DOMAIN data.items)
             Value(k) == IF k = "name" THEN dump_str(NameText(data.items[k]))
                         ELSE dump_todos(data.items[k], 4)
         IN  dump_container("{", [i \in 1..Len(keys) |-> dump_member(keys[i], Value(keys[i]))],
                            "}", 0)

\* json.load: a parse result is [ok, val, next]; val is tagged with its JSON
\* type, next is the index behind it
ParseError == [ok |-> FALSE, val |-> [t |-> "none", v |-> << >>], next |-> 0]
Parsed(t, v, next) == [ok |-> TRUE, val |-> [t |-> t, v |-> v], next |-> next]

IsJsonSpace(c) == c \in {" ", "\t", "\n", "\r"}

RECURSIVE skip_space(_, _)
skip_space(s, i) == IF i <= Len(s) /\ IsJsonSpace(s[i]) THEN skip_space(s, i + 1) ELSE i

StartsWith(s, i, word) == i + Len(word) - 1 <= Len(s) /\ SubSeq(s, i, i + Len(word) - 1) = word

\* the characters of a string literal from index i (behind the opening quote)
RECURSIVE parse_chars(_, _, _)
parse_chars(s, i, acc) ==
    IF i > Len(s) THEN ParseError
    ELSE IF s[i] = "\"" THEN Parsed("str", acc, i + 1)
    ELSE IF s[i] = "\\"
    THEN IF i + 1 > Len(s) THEN ParseError
         ELSE CASE s[i + 1] \in {"\"", "\\", "/"} -> parse_chars(s, i + 2, Append(acc, s[i + 1]))
                [] s[i + 1] = "t" -> parse_chars(s, i + 2, Append(acc, "\t"))
                [] s[i + 1] = "n" -> parse_chars(s, i + 2, Append(acc, "\n"))
                [] OTHER -> ParseError
    ELSE IF s[i] \in {"\t", "\n"} THEN ParseError
    ELSE parse_chars(s, i + 1, Append(acc, s[i]))

RECURSIVE parse_value(_, _)
RECURSIVE parse_elements(_, _, _)
RECURSIVE parse_members(_, _, _)

parse_value(s, i0) ==
    LET i == skip_space(s, i0)
    IN  IF i > Len(s) THEN ParseError
        ELSE CASE s[i] = "\"" -> parse_chars(s, i + 1, << >>)
               [] StartsWith(s, i, json_true) -> Parsed("bool", TRUE, i + Len(json_true))
               [] StartsWith(s, i, json_false) -> Parsed("bool", FALSE, i + Len(json_false))
               [] StartsWith(s, i, json_null) -> Parsed("null", << >>, i + Len(json_null))
               [] s[i] = "[" ->
                    LET j == skip_space(s, i + 1)
                    IN  IF j <= Len(s) /\ s[j] = "]" THEN Parsed("list", << >>, j + 1)
                        ELSE parse_elements(s, i + 1, << >>)
               [] s[i] = "{" ->
                    LET j == skip_space(s, i + 1)
                    IN  IF j <= Len(s) /\ s[j] = "}" THEN Parsed("dict", << >>, j + 1)
                        ELSE parse_members(s, i + 1, << >>)
               [] OTHER -> ParseError

\* value (',' value)* ']'
parse_elements(s, i, acc) ==
    LET element == parse_value(s, i)
        j == skip_space(s, element.next)
    IN  IF ~element.ok \/ j > Len(s) THEN ParseError
        ELSE IF s[j] = "," THEN parse_elements(s, j + 1, Append(acc, element.val))
        ELSE IF s[j] = "]" THEN Parsed("list", Append(acc, element.val), j + 1)
        ELSE ParseError

\* string ':' value (',' string ':' value)* '}'
parse_members(s, i0, acc) ==
    LET i == skip_space(s, i0)
        key == IF i <= Len(s) /\ s[i] = "\"" THEN parse_chars(s, i + 1, << >>) ELSE ParseError
        colon == skip_space(s, key.next)
        member == IF key.ok /\ colon <= Len(s) /\ s[colon] = ":"
                  THEN parse_value(s, colon + 1) ELSE ParseError
        j == skip_space(s, member.next)
        pair == [key |-> key.val.v, val |-> member.val]
    IN  IF ~member.ok \/ j > Len(s) THEN ParseError
        ELSE IF s[j] = "," THEN parse_members(s, j + 1, Append(acc, pair))
        ELSE IF s[j] = "}" THEN Parsed("dict", Append(acc, pair), j + 1)
        ELSE ParseError

\* the parsed value in the shape of the file model; of a repeated key the
\* last value counts
LastOf(pairs, key) ==
    pairs[CHOOSE i \in DOMAIN pairs :
             pairs[i].key = KeyText(key) /\ \A j \in DOMAIN pairs : pairs[j].key = KeyText(key) => j <= i].val

KeysOf(pairs) == {TextKey(pairs[i].key) : i \in DOMAIN pairs}

\* a load that fills in 'priority' where the stored task has none
task_of_with_default(val) ==
    [k \in KeysOf(val.v) \cup {"priority"} |->
        IF k \in KeysOf(val.v) THEN LastOf(val.v, k).v ELSE DEFAULT_PRIORITY]

task_of(val) == [k \in KeysOf(val.v) |-> LastOf(val.v, k).v]

todos_of(val) ==
    IF val.t = "null" THEN NullVal
    ELSE ListVal([i \in 1..Len(val.v) |-> task_of(val.v[i])])

data_of(val) ==
    IF val.t = "list" THEN todos_of(val)
    ELSE [type |-> "dict",
          items |-> [k \in KeysOf(val.v) |->
                        IF k = "name" THEN TextName(LastOf(val.v, k).v)
                        ELSE todos_of(LastOf(val.v, k))]]

\* the document json.load returns, or the JSONDecodeError
json_load(text) ==
    LET parsed == parse_value(text, 1)
    IN  IF parsed.ok /\ skip_space(text, parsed.next) > Len(text)
        THEN [ok |-> TRUE, data |-> data_of(parsed.val)]
        ELSE [ok |-> FALSE, data |-> NoData]

(***************************************************************************)
(* Spec: invocations of the two commands, one after another, on one file   *)
(***************************************************************************)
Init ==
    /\ file \in InitFiles
    /\ pre = file
    /\ cmd = "none"
    /\ input = << >>
    /\ outcome = NoOutcome
    /\ ret = NotFound
    /\ ops = 0
    /\ proc = NoProcs
    /\ log = << >>

\* one invocation: r is what run() reports or hands to update_project
Invoke(name, attributes, r) ==
    /\ ops < MaxOps
    /\ ops' = ops + 1
    /\ pre' = file
    /\ cmd' = name
    /\ input' = attributes
    /\ ret' = NotFound
    /\ UNCHANGED <<proc, log>>
    /\ IF r.save
       THEN \E w \in WriteResults :
               /\ file' = update_project(file, r.new_data, w)
               /\ outcome' = IF w = "written"
                             THEN [status |-> r.status, exit |-> r.exit, saves |-> 1]
                             ELSE [status |-> "write_error", exit |-> 1, saves |-> 1]
       ELSE /\ file' = file
            /\ outcome' = [status |-> r.status, exit |-> r.exit, saves |-> 0]

Add == \E i \in DOMAIN AddLines : Invoke("add", AddLines[i], AddCommand_run(file, AddLines[i]))

Prio == \E i \in DOMAIN PrioLines : Invoke("prio", PrioLines[i], PrioCommand_run(file, PrioLines[i]))

Next == Add \/ Prio

Spec == Init /\ [][Next]_vars

(***************************************************************************)
(* SpecOnce: one invocation of either command, on a command line drawn     *)
(* from OnceInputs                                                         *)
(***************************************************************************)
InitOnce ==
    /\ file \in OnceFiles
    /\ pre = file
    /\ cmd = "none"
    /\ input \in OnceInputs
    /\ outcome = NoOutcome
    /\ ret = NotFound
    /\ ops = 0
    /\ proc = NoProcs
    /\ log = << >>

AddOnce == cmd = "none" /\ Invoke("add", input, AddCommand_run(file, input))

PrioOnce == cmd = "none" /\ Invoke("prio", input, PrioCommand_run(file, input))

NextOnce == AddOnce \/ PrioOnce

SpecOnce == InitOnce /\ [][NextOnce]_vars

(***************************************************************************)
(* SpecLocate: the locator applied to a task list and an identifier        *)
(***************************************************************************)
IdAlphabet == {"0", "1", "2", "3", "-", "+", "a", "A", " "}
Identifiers == SeqsUpTo(IdAlphabet, MaxIdLen)

title_2 == <<"2">>

LocTasks == { [done |-> FALSE, title |-> title_a, priority |-> low],
              [done |-> TRUE, title |-> title_A],
              [done |-> FALSE, title |-> title_1, priority |-> high],
              [done |-> FALSE, title |-> title_2, priority |-> medium] }

FileTodos(f) == data_todos(f.data).items

InitLocate ==
    /\ file \in {JsonFile(Project(project_name, ListVal(t))) : t \in SeqsUpTo(LocTasks, MaxLocTodos)}
    /\ pre = file
    /\ cmd = "none"
    /\ input \in Identifiers
    /\ outcome = NoOutcome
    /\ ret = NotFound
    /\ ops = 0
    /\ proc = NoProcs
    /\ log = << >>

Locate ==
    /\ cmd = "none"
    /\ cmd' = "find"
    /\ ret' = find_todo_by_identifier(FileTodos(file), input)
    /\ pre' = file
    /\ UNCHANGED <<file, input, outcome, ops, proc, log>>

NextLocate == Locate

SpecLocate == InitLocate /\ [][NextLocate]_vars

(***************************************************************************)
(* SpecValidate: validate_priority applied to a string                     *)
(***************************************************************************)
RECURSIVE CaseVariants(_)
CaseVariants(word) ==
    IF word = << >> THEN {<< >>}
    ELSE {<<c>> \o rest : c \in {Head(word), char_upper(Head(word))}, rest \in CaseVariants(Tail(word))}

PrioAlphabet == {"l", "o", "w", "W", "h", "x", " "}
PriorityStrings ==
    CaseVariants(low) \cup CaseVariants(medium) \cup CaseVariants(high)
    \cup SeqsUpTo(PrioAlphabet, MaxPrioLen)

NotValidated == [raised |-> FALSE, value |-> << >>]

InitValidate ==
    /\ file \in {Absent, JsonFile(Project(project_name, ListVal(<<task_a, task_A>>)))}
    /\ pre = file
    /\ cmd = "none"
    /\ input \in PriorityStrings
    /\ outcome = NoOutcome
    /\ ret = NotValidated
    /\ ops = 0
    /\ proc = NoProcs
    /\ log = << >>

Validate ==
    /\ cmd = "none"
    /\ cmd' = "validate"
    /\ ret' = validate_priority(input)
    /\ pre' = file
    /\ UNCHANGED <<file, input, outcome, ops, proc, log>>

NextValidate == Validate

SpecValidate == InitValidate /\ [][NextValidate]_vars

(***************************************************************************)
(* The run() methods step by step. proc[p] is invocation p: where it is    *)
(* in run(), its command line, the document it loaded, what it is about    *)
(* to write, and how it ended. log lists the steps taken, in order.        *)
(***************************************************************************)
Running(name, attributes) ==
    [pc |-> "load", cmd |-> name, attributes |-> attributes, data |-> NoData,
     new_data |-> NoData, status |-> "none", exit |-> 0]

Event(p, step, ok) == [p |-> p, step |-> step, ok |-> ok]

\* sys.exit(code) after the message
Exit(p, status, code) == [proc EXCEPT ![p].pc = "done", ![p].status = status, ![p].exit = code]

\* with open(PROJECT_FILE, 'r') ... json.load, and the except clauses after it
Load(p) ==
    /\ proc[p].pc = "load"
    /\ log' = Append(log, Event(p, "load", file.kind = "json"))
    /\ proc' = CASE file.kind = "absent" ->
                      IF proc[p].cmd = "add" THEN Exit(p, "ask_create_project", 0)
                                             ELSE Exit(p, "project_not_found", 1)
                 [] file.kind = "text" -> Exit(p, "read_error", 1)
                 [] OTHER -> [proc EXCEPT ![p].data = file.data,
                                          ![p].pc = IF proc[p].cmd = "add" THEN "update_todos"
                                                                           ELSE "parse"]
    /\ UNCHANGED <<file, pre, cmd, input, outcome, ret, ops>>

\* AddCommand.run: name, todos, new_data with update_todos(todos)
UpdateTodos(p) ==
    /\ proc[p].pc = "update_todos"
    /\ \E name \in {data_name(proc[p].data)}, todos \in {data_todos(proc[p].data)} :
       \E updated \in {update_todos(todos, proc[p].attributes)} :
          /\ log' = Append(log, Event(p, "parse", updated.exit = "none"))
          /\ proc' = IF updated.exit # "none" THEN Exit(p, updated.exit, 1)
                     ELSE [proc EXCEPT ![p].new_data = Project(name, ListVal(updated.todos)),
                                       ![p].pc = "save"]
    /\ UNCHANGED <<file, pre, cmd, input, outcome, ret, ops>>

\* PrioCommand.run step 2: parse_prio_input
ParseInput(p) ==
    /\ proc[p].pc = "parse"
    /\ \E parsed \in {parse_prio_input(proc[p].attributes)} :
          /\ log' = Append(log, Event(p, "parse", parsed.exit = "none"))
          /\ proc' = IF parsed.exit # "none" THEN Exit(p, parsed.exit, 1)
                     ELSE [proc EXCEPT ![p].pc = "find"]
    /\ UNCHANGED <<file, pre, cmd, input, outcome, ret, ops>>

\* PrioCommand.run step 3: find_todo_by_identifier and the 'Task not found' exit
FindTodo(p) ==
    /\ proc[p].pc = "find"
    /\ \E todos \in {data_todos(proc[p].data)}, parsed \in {parse_prio_input(proc[p].attributes)} :
       \E position \in {py_int(parsed.task_id)},
          located \in {find_todo_by_identifier(todos.items, parsed.task_id)} :
          LET crash == todos.type # "list" /\ ~(position.ok /\ position.val - 1 < 0)
          IN  /\ log' = Append(log, Event(p, "find", ~crash /\ located.found))
              /\ proc' = IF crash THEN Exit(p, "crash", 1)
                         ELSE IF ~located.found THEN Exit(p, "task_not_found", 1)
                         ELSE [proc EXCEPT ![p].pc = "validate"]
    /\ UNCHANGED <<file, pre, cmd, input, outcome, ret, ops>>

\* PrioCommand.run steps 4-6: update_todo_priority, todos[list_index], new_data
UpdatePriority(p) ==
    /\ proc[p].pc = "validate"
    /\ \E name \in {data_name(proc[p].data)}, todos \in {data_todos(proc[p].data)},
          parsed \in {parse_prio_input(proc[p].attributes)} :
       \E located \in {find_todo_by_identifier(todos.items, parsed.task_id)} :
       \E updated \in {update_todo_priority(located.todo, parsed.priority)} :
          /\ log' = Append(log, Event(p, "validate", updated.exit = "none"))
          /\ proc' = IF updated.exit # "none" THEN Exit(p, "invalid_priority", 1)
                     ELSE [proc EXCEPT
                             ![p].new_data = Project(name,
                                 ListVal([todos.items EXCEPT ![located.index + 1] = updated.todo])),
                             ![p].pc = "save"]
    /\ UNCHANGED <<file, pre, cmd, input, outcome, ret, ops>>

\* a save that leaves the file alone when it is no longer the document loaded
SaveProject_keep_changed(p) ==
    /\ proc[p].pc = "save"
    /\ \E w \in WriteResults :
          /\ file' = IF file = JsonFile(proc[p].data)
                     THEN update_project(file, proc[p].new_data, w)
                     ELSE file
          /\ log' = Append(log, Event(p, "save", w = "written"))
          /\ proc' = IF w = "written" THEN Exit(p, "ok", 0) ELSE Exit(p, "write_error", 1)
    /\ UNCHANGED <<pre, cmd, input, outcome, ret, ops>>

\* update_project(new_data), then the confirmation and the end of run()
SaveProject(p) ==
    /\ proc[p].pc = "save"
    /\ \E w \in WriteResults :
          /\ file' = update_project(file, proc[p].new_data, w)
          /\ log' = Append(log, Event(p, "save", w = "written"))
          /\ proc' = IF w = "written" THEN Exit(p, "ok", 0) ELSE Exit(p, "write_error", 1)
    /\ UNCHANGED <<pre, cmd, input, outcome, ret, ops>>

Step(p) ==
    \/ Load(p)
    \/ UpdateTodos(p)
    \/ ParseInput(p)
    \/ FindTodo(p)
    \/ UpdatePriority(p)
    \/ SaveProject(p)

(***************************************************************************)
(* SpecRun: one invocation, step by step; FairRun: the same, the           *)
(* interpreter never stopping in the middle of run()                       *)
(***************************************************************************)
InitRun ==
    /\ file \in OnceFiles
    /\ pre = file
    /\ cmd = "none"
    /\ input = << >>
    /\ outcome = NoOutcome
    /\ ret = NotFound
    /\ ops = 0
    /\ proc \in { <<Running("add", a)>> : a \in AddInputs }
                \cup { <<Running("prio", a)>> : a \in PrioInputs }
    /\ log = << >>

NextRun == \E p \in DOMAIN proc : Step(p)

SpecRun == InitRun /\ [][NextRun]_vars

\* the fair runs are taken over the command lines without the example lines
InitFair ==
    /\ InitRun
    /\ \A p \in DOMAIN proc : Len(proc[p].attributes) < Len(pin_example)

FairRun == InitFair /\ [][NextRun]_vars /\ WF_vars(NextRun)

(***************************************************************************)
(* SpecRace: two invocations on the same project file, their steps         *)
(* interleaved in every order; pre stays the file they started on          *)
(***************************************************************************)
RaceFiles ==
    { Absent,
      JsonFile(Project(project_name, ListVal(<< >>))),
      JsonFile(Project(project_name, ListVal(<<task_a, task_A>>))) }

RaceCalls ==
    { Running("add", in_a), Running("add", in_flag), Running("add", in_empty),
      Running("prio", pin_1_high), Running("prio", pin_a_low), Running("prio", pin_1_bad) }

InitRace ==
    /\ file \in RaceFiles
    /\ pre = file
    /\ cmd = "none"
    /\ input = << >>
    /\ outcome = NoOutcome
    /\ ret = NotFound
    /\ ops = 0
    /\ proc \in {<<first, second>> : first \in RaceCalls, second \in RaceCalls}
    /\ log = << >>

NextRace == \E p \in DOMAIN proc : Step(p)

SpecRace == InitRace /\ [][NextRace]_vars

(***************************************************************************)
(* SpecSort: sort_todos_by_priority applied to a task list; input is the   *)
(* list handed to it, pre the list as it was before the call               *)
(***************************************************************************)
SortTasks ==
    { [done |-> FALSE, title |-> title_a, priority |-> high],
      [done |-> FALSE, title |-> title_A],
      [done |-> FALSE, title |-> title_1, priority |-> medium],
      [done |-> FALSE, title |-> title_buy_milk, priority |-> low],
      [done |-> TRUE, title |-> title_a, priority |-> low],
      [done |-> TRUE, title |-> title_A, priority |-> high],
      [done |-> TRUE, title |-> title_1] }

InitSort ==
    /\ file = Absent
    /\ input \in SeqsUpTo(SortTasks, MaxSortLen)
    /\ pre = input
    /\ cmd = "none"
    /\ outcome = NoOutcome
    /\ ret = << >>
    /\ ops = 0
    /\ proc = NoProcs
    /\ log = << >>

SortByPriority ==
    /\ cmd = "none"
    /\ cmd' = "sort"
    /\ ret' = sort_todos_by_priority(input)
    /\ UNCHANGED <<file, pre, input, outcome, ops, proc, log>>

NextSort == SortByPriority

SpecSort == InitSort /\ [][NextSort]_vars

(***************************************************************************)
(* SpecRoundTrip: update_project writes a project, read_project_file loads *)
(* the file, update_project writes what was loaded. Here input is the      *)
(* project, file the characters in the file, pre the characters the first  *)
(* save wrote, ret what the load returned.                                 *)
(***************************************************************************)
title_quoted == <<"\"", "a", "\\", "\t", "b">>
task_quoted == [done |-> FALSE, title |-> title_quoted, priority |-> high]

SavedTasks == {task_a, task_A, task_buy_milk, task_quoted}

SavedProjects ==
    {Project(name, ListVal(t)) : name \in {project_name, ""}, t \in SeqsUpTo(SavedTasks, MaxSavedTodos)}

NotLoaded == [ok |-> FALSE, data |-> NoData]

InitRoundTrip ==
    /\ file = << >>
    /\ pre = << >>
    /\ cmd = "none"
    /\ input \in SavedProjects
    /\ outcome = NoOutcome
    /\ ret = NotLoaded
    /\ ops = 0
    /\ proc = NoProcs
    /\ log = << >>

\* update_project(P)
SaveFirst ==
    /\ cmd = "none"
    /\ cmd' = "saved"
    /\ file' = json_dump(input)
    /\ pre' = file'
    /\ UNCHANGED <<input, outcome, ret, ops, proc, log>>

\* read_project_file()
LoadSaved ==
    /\ cmd = "saved"
    /\ cmd' = "loaded"
    /\ ret' = json_load(file)
    /\ UNCHANGED <<file, pre, input, outcome, ops, proc, log>>

\* update_project(loaded)
SaveLoaded ==
    /\ cmd = "loaded"
    /\ ret.ok
    /\ cmd' = "resaved"
    /\ file' = json_dump(ret.data)
    /\ UNCHANGED <<pre, input, outcome, ret, ops, proc, log>>

NextRoundTrip == SaveFirst \/ LoadSaved \/ SaveLoaded

SpecRoundTrip == InitRoundTrip /\ [][NextRoundTrip]_vars

(***************************************************************************)
(* SpecSplit: parse_prio_input applied to the text after `todo prio`,      *)
(* which is ' '.join(sys.argv[2:]): words, spaces, and the tabs or spaces  *)
(* a quoted argument brings with it                                        *)
(***************************************************************************)
fr_tab == <<"\t">>

SplitWords == {fr_1, fr_a, fr_high, fr_LOW, fr_space, fr_tab}
SplitInputs == {Flatten(p) : p \in SeqsUpTo(SplitWords, MaxWords)}

NotParsed == [exit |-> "none", task_id |-> << >>, priority |-> << >>]

InitSplit ==
    /\ file = JsonFile(Project(project_name, ListVal(<<task_a, task_A>>)))
    /\ pre = file
    /\ cmd = "none"
    /\ input \in SplitInputs
    /\ outcome = NoOutcome
    /\ ret = NotParsed
    /\ ops = 0
    /\ proc = NoProcs
    /\ log = << >>

Split ==
    /\ cmd = "none"
    /\ cmd' = "split"
    /\ ret' = parse_prio_input(input)
    /\ UNCHANGED <<file, pre, input, outcome, ops, proc, log>>

NextSplit == Split

SpecSplit == InitSplit /\ [][NextSplit]_vars

(***************************************************************************)
(* SpecFlags: one append of a single task description (no comma) put       *)
(* together from words, whole priority flags and pieces of a flag          *)
(***************************************************************************)
fr_dash == <<"-">>
fl_high == fr_flag \o fr_high
fl_LOW == <<"-","-","P","R","I","O","R","I","T","Y","=">> \o fr_LOW
fl_x == fr_flag \o fr_x
fr_cut == <<"-","p","r","i","o","r","i","t","y","=">> \o fr_high

FlagWords == {fr_a, fr_space, fr_dash, fl_high, fl_LOW, fl_x, fr_cut}
FlagInputs == {Flatten(p) : p \in SeqsUpTo(FlagWords, MaxFlagParts)}

InitFlags ==
    /\ file = JsonFile(Project(project_name, ListVal(<<task_a>>)))
    /\ pre = file
    /\ cmd = "none"
    /\ input \in FlagInputs
    /\ outcome = NoOutcome
    /\ ret = NotFound
    /\ ops = 0
    /\ proc = NoProcs
    /\ log = << >>

AddFlagged == cmd = "none" /\ Invoke("add", input, AddCommand_run(file, input))

NextFlags == AddFlagged

SpecFlags == InitFlags /\ [][NextFlags]_vars

(***************************************************************************)
(* SpecSearch: find_todos_by_title applied to a task list and a query,     *)
(* once with partial and once with exact matching                          *)
(***************************************************************************)
title_ab == <<"a","b">>
title_B_a == <<"B"," ","a">>
task_ab == [done |-> FALSE, title |-> title_ab, priority |-> high]
task_B_a == [done |-> TRUE, title |-> title_B_a, priority |-> medium]

SearchTasks == {task_A, task_ab, task_B_a}
QueryAlphabet == {"a", "b", "B", " "}
Queries == SeqsUpTo(QueryAlphabet, MaxQueryLen)

NotSearched == [done |-> FALSE, matches |-> << >>]
Searched(matches) == [done |-> TRUE, matches |-> matches]

InitSearch ==
    /\ file \in {JsonFile(Project(project_name, ListVal(t))) :
                    t \in SeqsUpTo(SearchTasks, MaxSearchTodos)}
    /\ pre = file
    /\ cmd = "none"
    /\ input \in Queries
    /\ outcome = NoOutcome
    /\ ret = [partial |-> NotSearched, exact |-> NotSearched]
    /\ ops = 0
    /\ proc = NoProcs
    /\ log = << >>

SearchPartial ==
    /\ cmd \in {"none", "search"}
    /\ ~ret.partial.done
    /\ cmd' = "search"
    /\ ret' = [ret EXCEPT !.partial = Searched(find_todos_by_title(FileTodos(file), input, FALSE))]
    /\ UNCHANGED <<file, pre, input, outcome, ops, proc, log>>

SearchExact ==
    /\ cmd \in {"none", "search"}
    /\ ~ret.exact.done
    /\ cmd' = "search"
    /\ ret' = [ret EXCEPT !.exact = Searched(find_todos_by_title(FileTodos(file), input, TRUE))]
    /\ UNCHANGED <<file, pre, input, outcome, ops, proc, log>>

NextSearch == SearchPartial \/ SearchExact

SpecSearch == InitSearch /\ [][NextSearch]_vars

(***************************************************************************)
(* SpecCompose: two task descriptions appended to one project file by two  *)
(* invocations, one after the other, and next to it the two appended to a  *)
(* copy of the file by one invocation, joined by a comma                   *)
(***************************************************************************)
d_A_spaced == <<" ","A"," ">>

Descriptions == {fr_a, d_A_spaced, fr_space, in_flag, in_flag_bad, fl_LOW}

Joined(first, second) == first \o <<",", " ">> \o second

NotAppended == [done |-> FALSE, file |-> Absent]

\* one invocation of add on f: the file it leaves and what it reports
RunAdd(f, attributes, w) ==
    LET r == AddCommand_run(f, attributes)
    IN  IF r.save
        THEN [file |-> update_project(f, r.new_data, w),
              status |-> IF w = "written" THEN r.status ELSE "write_error"]
        ELSE [file |-> f, status |-> r.status]

InitCompose ==
    /\ file \in OnceFiles \cup MalformedFiles
    /\ pre = file
    /\ cmd = "none"
    /\ input \in [first : Descriptions, second : Descriptions]
    /\ outcome = NoOutcome
    /\ ret = NotAppended
    /\ ops = 0
    /\ proc = NoProcs
    /\ log = << >>

\* todo add "A, B" on the copy
AddJoined ==
    /\ ~ret.done
    /\ \E w \in WriteResults :
          \E r \in {RunAdd(pre, Joined(input.first, input.second), w)} :
              /\ ret' = [done |-> TRUE, file |-> r.file]
              /\ log' = Append(log, Event("joined", r.status, r.status = "ok"))
    /\ UNCHANGED <<file, pre, cmd, input, outcome, ops, proc>>

\* todo add "A"
AddFirst ==
    /\ ops = 0
    /\ \E w \in WriteResults :
          \E r \in {RunAdd(file, input.first, w)} :
              /\ file' = r.file
              /\ log' = Append(log, Event("first", r.status, r.status = "ok"))
    /\ ops' = 1
    /\ cmd' = "add"
    /\ UNCHANGED <<pre, input, outcome, ret, proc>>

\* todo add "B"
AddSecond ==
    /\ ops = 1
    /\ \E w \in WriteResults :
          \E r \in {RunAdd(file, input.second, w)} :
              /\ file' = r.file
              /\ log' = Append(log, Event("second", r.status, r.status = "ok"))
    /\ ops' = 2
    /\ UNCHANGED <<pre, cmd, input, outcome, ret, proc>>

NextCompose == AddJoined \/ AddFirst \/ AddSecond

SpecCompose == InitCompose /\ [][NextCompose]_vars

(***************************************************************************)
(* Vocabulary of the properties                                            *)
(***************************************************************************)
PreTodos == FileTodos(pre)
NowTodos == FileTodos(file)
Ran == cmd \in {"add", "prio"}

\* the file holds an object with a list under 'todos'
WellFormed(f) ==
    f.kind = "json" /\ HasKey(f.data, "todos") /\ f.data.items["todos"].type = "list"

\* the project name as the data model reads it
NameOf(f) ==
    IF HasKey(f.data, "name") /\ f.data.items["name"] # "" THEN f.data.items["name"] ELSE "Untitled"

\* s without its leading and trailing whitespace
Trimmed(s) ==
    LET solid == {i \in 1..Len(s) : ~IsSpace(s[i])}
    IN  IF solid = {} THEN << >>
        ELSE SubSeq(s, CHOOSE i \in solid : \A j \in solid : i <= j,
                       CHOOSE i \in solid : \A j \in solid : i >= j)

\* the comma-separated pieces of s, in order
RECURSIVE PiecesOf(_)
PiecesOf(s) ==
    LET commas == {i \in 1..Len(s) : s[i] = ","}
    IN  IF commas = {} THEN <<s>>
        ELSE LET last == CHOOSE i \in commas : \A j \in commas : i >= j
             IN  PiecesOf(SubSeq(s, 1, last - 1)) \o <<SubSeq(s, last + 1, Len(s))>>

NonEmptyPieces(s) ==
    SelectSeq([i \in 1..Len(PiecesOf(s)) |-> Trimmed(PiecesOf(s)[i])], LAMBDA t : t # << >>)

\* where a priority flag starts in s, and the value of the flag at i
FlagStarts(s) == {i \in 1..Len(s) : MatchEnd(s, i) > 0}
FlagValue(s, i) == SubSeq(s, i + PatLen, MatchEnd(s, i))
FirstFlag(s) == CHOOSE i \in FlagStarts(s) : \A j \in FlagStarts(s) : i <= j

ExpectedTask(piece) ==
    [done |-> FALSE,
     title |-> Trimmed(re_sub(piece)),
     priority |-> IF FlagStarts(piece) = {} THEN medium
                  ELSE str_lower(FlagValue(piece, FirstFlag(piece)))]

\* a and b are the same text up to letter case
SameIgnoringCase(a, b) ==
    Len(a) = Len(b) /\ \A i \in 1..Len(a) : char_upper(a[i]) = char_upper(b[i])

Canonical(s) == CHOOSE level \in {low, medium, high} : SameIgnoringCase(s, level)
IsLevelInAnyCase(s) == \E level \in {low, medium, high} : SameIgnoringCase(s, level)

(***************************************************************************)
(* Properties                                                              *)
(***************************************************************************)
ReportedErrors ==
    {"ask_create_project", "project_not_found", "read_error", "no_input", "no_valid_input",
     "usage", "one_part", "task_not_found", "invalid_priority"}

\* C1: an append or change-priority that ends by reporting an error (project
\* file missing, unparseable file, empty or malformed input, task not found,
\* invalid new priority) has called no save and the file is what it was
\* before the operation.
C1_AbortLeavesFileUntouched ==
    (Ran /\ outcome.status \in ReportedErrors) => (outcome.saves = 0 /\ file = pre)

C1_Witness ==
    /\ cmd = "prio" /\ outcome.status = "invalid_priority"
    /\ Len(PreTodos) >= 1 /\ file = pre

\* C2: a successful append on task list T with k non-empty pieces persists
\* T unchanged and in order, followed by one task per piece in input order,
\* each with done = FALSE, the trimmed piece without its flag as title, and
\* the lowercased flag value (medium without a flag) as priority; the input
\* "Buy milk --priority=high, Do laundry" on an empty list gives
\* [Buy milk/high, Do laundry/medium].
C2_AppendAddsOnePerPiece ==
    (cmd = "add" /\ outcome.status = "ok") =>
        LET pieces == NonEmptyPieces(input)
        IN  /\ Len(NowTodos) = Len(PreTodos) + Len(pieces)
            /\ \A i \in 1..Len(PreTodos) : NowTodos[i] = PreTodos[i]
            /\ \A i \in 1..Len(pieces) : NowTodos[Len(PreTodos) + i] = ExpectedTask(pieces[i])
            /\ (input = in_example /\ PreTodos = << >>) =>
                   NowTodos = << [done |-> FALSE, title |-> title_buy_milk, priority |-> high],
                                 [done |-> FALSE, title |-> title_do_laundry, priority |-> medium] >>

C2_Witness ==
    /\ cmd = "add" /\ outcome.status = "ok" /\ input = in_example
    /\ Len(PreTodos) = 3 /\ Len(NowTodos) = 5
    /\ NowTodos[4].priority = high

\* C3: a successful change-priority keeps the length and order of the task
\* list, changes exactly one task and of it only the priority field (title,
\* done and any other field stay), and keeps the project name.
C3_ChangeTouchesOnlyPriority ==
    (cmd = "prio" /\ outcome.status = "ok") =>
        /\ Len(NowTodos) = Len(PreTodos)
        /\ \E k \in 1..Len(PreTodos) :
              /\ \A j \in 1..Len(PreTodos) : j # k => NowTodos[j] = PreTodos[j]
              /\ DOMAIN NowTodos[k] = DOMAIN PreTodos[k] \cup {"priority"}
              /\ \A key \in DOMAIN PreTodos[k] \ {"priority"} : NowTodos[k][key] = PreTodos[k][key]
        /\ NameOf(file) = NameOf(pre)
        /\ HasKey(pre.data, "name") => file.data.items["name"] = pre.data.items["name"]

C3_Witness ==
    /\ cmd = "prio" /\ outcome.status = "ok"
    /\ Len(PreTodos) = 3 /\ PreTodos[2] = task_A
    /\ NowTodos[2].priority = medium /\ NowTodos[2].done

\* C4: an append whose input holds a priority flag with a value outside
\* low/medium/high (in any letter case) is rejected as an invalid priority:
\* nothing is added and nothing is written.
HasBadFlag(s) == \E i \in FlagStarts(s) : ~IsLevelInAnyCase(FlagValue(s, i))

C4_BadFlagRejected ==
    (cmd = "add" /\ WellFormed(pre) /\ HasBadFlag(input)) =>
        (outcome.status = "invalid_priority" /\ outcome.saves = 0 /\ file = pre)

\* C5: every task of the project file has no priority or one of low, medium,
\* high in lowercase, after any sequence of appends and priority changes on
\* a file that started that way.
PrioritiesValid(f) ==
    \A i \in 1..Len(FileTodos(f)) :
        "priority" \in DOMAIN FileTodos(f)[i] => FileTodos(f)[i].priority \in {low, medium, high}

C5_PrioritiesStayValid ==
    (WellFormed(pre) /\ PrioritiesValid(pre)) => PrioritiesValid(file)

\* C6: every task an append persists has a title that validate_title accepts:
\* non-empty and at most 500 characters after trimming.
C6_NewTitlesValid ==
    (cmd = "add" /\ outcome.status = "ok") =>
        \A i \in (Len(PreTodos) + 1)..Len(NowTodos) : ~validate_title(NowTodos[i].title).raised

\* C7: for an identifier that parses as the integer v, the locator returns
\* slot v-1 and the task in it exactly when 1 <= v <= len(tasks), and
\* not-found otherwise; "1" on a non-empty list is the first task, "0" and
\* negative numbers are not found.
C7_LocateByPosition ==
    (cmd = "find" /\ py_int(input).ok) =>
        LET v == py_int(input).val
            tasks == FileTodos(file)
        IN  /\ IF 1 <= v /\ v <= Len(tasks)
               THEN ret.found /\ ret.index = v - 1 /\ ret.todo = tasks[v]
               ELSE ~ret.found
            /\ (input = <<"1">> /\ tasks # << >>) => (ret.found /\ ret.todo = tasks[1])
            /\ input \in {<<"0">>, <<"-", "1">>, <<"-", "2">>} => ~ret.found
            /\ (input = <<"3">> /\ Len(tasks) = 2) => ~ret.found

C7_Witness ==
    /\ cmd = "find" /\ input = <<"2">> /\ Len(FileTodos(file)) = 2
    /\ ret.found /\ ret.index = 1 /\ ret.todo = FileTodos(file)[2]

\* C8: for an identifier that does not parse as an integer, the locator
\* returns the first task in list order whose title equals the identifier
\* ignoring letter case, and not-found when there is none.
C8_LocateByTitle ==
    (cmd = "find" /\ ~py_int(input).ok) =>
        LET tasks == FileTodos(file)
            same == {i \in 1..Len(tasks) : SameIgnoringCase(tasks[i].title, input)}
        IN  IF same = {}
            THEN ~ret.found
            ELSE LET first == CHOOSE i \in same : \A j \in same : i <= j
                 IN  ret.found /\ ret.index = first - 1 /\ ret.todo = tasks[first]

C8_Witness ==
    /\ cmd = "find" /\ input = <<"A">> /\ Len(FileTodos(file)) = 2
    /\ FileTodos(file)[1].title = title_a /\ FileTodos(file)[2].title = title_A
    /\ ret.found /\ ret.index = 0

\* C9: validate_priority returns the lowercase level for every spelling of
\* low, medium or high in any letter case, raises ValueError for every other
\* string, and leaves the project file as it is.
C9_ValidatePriority ==
    cmd = "validate" =>
        /\ IF IsLevelInAnyCase(input)
           THEN ~ret.raised /\ ret.value = Canonical(input)
           ELSE ret.raised
        /\ file = pre

C9_Witness ==
    /\ cmd = "validate" /\ input = <<"H","i","G","h">>
    /\ ~ret.raised /\ ret.value = high

\* C10: when the project file exists but does not hold an object with a todos
\* list (unparseable text, or parseable content of another shape), append and
\* change-priority end with the corrupt-data error and write nothing.
C10_MalformedFileIsCorruptData ==
    (Ran /\ pre.kind # "absent" /\ ~WellFormed(pre)) =>
        (outcome.status = "read_error" /\ outcome.saves = 0 /\ file = pre)

\* C11: every error outcome of append and change-priority (project file not
\* found, unreadable file, task not found, invalid priority, empty or
\* malformed input) ends the process with a non-zero exit status.
C11_ErrorsExitNonZero ==
    (Ran /\ outcome.status \in ReportedErrors) => outcome.exit # 0

\* C12: after a save that ended with a write error the project file still
\* parses and holds either the complete previous project or the complete
\* project that was being written.
C12_FailedSaveKeepsFileParseable ==
    (Ran /\ outcome.status = "write_error") =>
        /\ file.kind = "json"
        /\ \/ file = pre
           \/ file = JsonFile(IF cmd = "add" THEN AddCommand_run(pre, input).new_data
                                             ELSE PrioCommand_run(pre, input).new_data)

\* the steps of invocation p, as positions of the log
StepsOf(p, step) == {i \in DOMAIN log : log[i].p = p /\ log[i].step = step}
Loads(p) == Cardinality(StepsOf(p, "load"))
Saves(p) == Cardinality(StepsOf(p, "save"))
SucceededBefore(p, step, i) == \E j \in 1..(i - 1) : log[j] = Event(p, step, TRUE)

\* the tasks invocation p is about to add to the ones it loaded
AppendedBy(p) ==
    LET loaded == data_todos(proc[p].data).items
        written == data_todos(proc[p].new_data).items
    IN  SubSeq(written, Len(loaded) + 1, Len(written))

AllDone == \A p \in DOMAIN proc : proc[p].pc = "done"

\* an invocation has loaded once as soon as it is past the load, and saves at
\* most once
OneLoadAtMostOneSave ==
    \A p \in DOMAIN proc :
        /\ Loads(p) = (IF proc[p].pc = "load" THEN 0 ELSE 1)
        /\ Saves(p) <= 1
        /\ Saves(p) = 1 => proc[p].pc = "done"

\* the steps run() takes before update_project were taken, and succeeded
SaveAfterStepsTaken ==
    \A p \in DOMAIN proc : \A i \in StepsOf(p, "save") :
        /\ SucceededBefore(p, "load", i)
        /\ SucceededBefore(p, "parse", i)
        /\ proc[p].cmd = "prio" =>
               (SucceededBefore(p, "find", i) /\ SucceededBefore(p, "validate", i))

\* every priority a saved append gives to a new task is one validate_priority
\* accepts
SaveAfterFlagValidated ==
    \A p \in DOMAIN proc :
        (proc[p].cmd = "add" /\ Saves(p) = 1) =>
            \A k \in DOMAIN AppendedBy(p) : ~validate_priority(AppendedBy(p)[k].priority).raised

\* every invocation reaches the end of run()
RunTerminates == <>AllDone

\* C13: every invocation of append or change-priority loads the project file
\* exactly once and saves at most once, and saves only after the load, the
\* input parsing, the task location and the validation of the priority it
\* writes have succeeded.
C13_OneLoadChecksThenSave ==
    /\ OneLoadAtMostOneSave
    /\ SaveAfterStepsTaken
    /\ SaveAfterFlagValidated

\* where invocation p loaded and where it saved, as positions of the log
LoadAt(p) == CHOOSE i \in StepsOf(p, "load") : TRUE
SaveAt(p) == CHOOSE i \in StepsOf(p, "save") : TRUE

\* both invocations loaded before either saved, both saves were written, and
\* the one of `earlier` came first
Raced(earlier, later) ==
    /\ earlier # later
    /\ AllDone
    /\ Saves(earlier) = 1 /\ Saves(later) = 1
    /\ log[SaveAt(earlier)].ok /\ log[SaveAt(later)].ok
    /\ LoadAt(earlier) < SaveAt(earlier) /\ LoadAt(later) < SaveAt(earlier)
    /\ SaveAt(earlier) < SaveAt(later)

\* what invocation p writes when it runs alone on file f
AloneOn(f, p) ==
    IF proc[p].cmd = "add" THEN AddCommand_run(f, proc[p].attributes)
                           ELSE PrioCommand_run(f, proc[p].attributes)

\* C14: when two invocations run on the same project file and both load
\* before either saves, the one that saves last overwrites the whole project:
\* the file ends as if the later one had run alone on the starting file, the
\* earlier one's change is not in it, and both end without reporting an
\* error.
C14_LastWriterWins ==
    \A earlier, later \in DOMAIN proc :
        Raced(earlier, later) =>
            /\ file = JsonFile(proc[later].new_data)
            /\ file = JsonFile(AloneOn(pre, later).new_data)
            /\ proc[earlier].new_data # proc[later].new_data =>
                   file # JsonFile(proc[earlier].new_data)
            /\ proc[earlier].status = "ok" /\ proc[earlier].exit = 0
            /\ proc[later].status = "ok" /\ proc[later].exit = 0

C14_Witness ==
    /\ Raced(1, 2)
    /\ proc[1].cmd = "add" /\ proc[1].attributes = in_a
    /\ proc[2].cmd = "prio" /\ proc[2].attributes = pin_1_high
    /\ Len(PreTodos) = 2 /\ Len(NowTodos) = 2
    /\ NowTodos[1].priority = high
    /\ Len(data_todos(proc[1].new_data).items) = 3

\* the rank the ordering gives a task: high 0, medium 1, low 2, medium when
\* the task has no priority
RankOf(t) ==
    IF "priority" \notin DOMAIN t THEN 1
    ELSE CASE t.priority = high -> 0
           [] t.priority = medium -> 1
           [] t.priority = low -> 2

SameKey(a, b) == a.done = b.done /\ RankOf(a) = RankOf(b)
Before(a, b) == (~a.done /\ b.done) \/ (a.done = b.done /\ RankOf(a) < RankOf(b))

StoredTodos(f) == IF WellFormed(f) THEN f.data.items["todos"].items ELSE << >>
Unprioritised(f) == {i \in 1..Len(StoredTodos(f)) : "priority" \notin DOMAIN StoredTodos(f)[i]}

\* the position (1-based) of the task a change-priority on pre addresses
TargetOf(attributes) ==
    find_todo_by_identifier(PreTodos, parse_prio_input(attributes).task_id).index + 1

\* C16: after a successful append, and after a successful change-priority
\* for every task other than the one it targets, a task that had no priority
\* field in the file before the operation has none in the file written.
C16_MissingPriorityStaysMissing ==
    /\ (cmd = "add" /\ outcome.status = "ok") =>
           \A i \in Unprioritised(pre) : i \in Unprioritised(file)
    /\ (cmd = "prio" /\ outcome.status = "ok") =>
           \A i \in Unprioritised(pre) \ {TargetOf(input)} : i \in Unprioritised(file)

C16_Witness ==
    /\ cmd = "prio" /\ outcome.status = "ok" /\ input = pin_2_medium
    /\ Unprioritised(pre) = {1} /\ TargetOf(input) = 2
    /\ Unprioritised(file) = {1}
    /\ NowTodos[2].priority = medium

\* C17: for every well-formed project P, tasks without a priority field
\* included, the file written by saving P, loading the file and saving what
\* was loaded equals the file the first save wrote, and what was loaded has
\* the name of P and the tasks of P in the same order.
C17_SaveLoadSaveRoundTrip ==
    /\ cmd \in {"loaded", "resaved"} =>
           /\ ret.ok
           /\ data_name(ret.data) = data_name(input)
           /\ data_todos(ret.data) = data_todos(input)
    /\ cmd = "resaved" => file = pre

C17_Witness ==
    /\ cmd = "resaved"
    /\ input = Project(project_name, ListVal(<<task_a, task_quoted>>))
    /\ file = pre /\ Len(file) > Len(title_quoted)
    /\ DOMAIN data_todos(ret.data).items[1] = {"done", "title"}
    /\ data_todos(ret.data).items[2].title = title_quoted

\* C18: the project name an operation uses is "Untitled" when the stored
\* name is absent or empty and the stored name otherwise: get_project_name
\* returns that name, and a successful append or change-priority writes
\* that name into the project it persists.
C18_NameDefaultsToUntitled ==
    /\ (file.kind = "absent" \/ WellFormed(file)) =>
           get_project_name(file) = [exit |-> "none", name |-> NameOf(file)]
    /\ (Ran /\ outcome.status = "ok") =>
           (HasKey(file.data, "name") /\ file.data.items["name"] = NameOf(pre))

\* where the whitespace-delimited tokens of s start, and the token at i
TokenStarts(s) == {i \in 1..Len(s) : ~IsSpace(s[i]) /\ (i = 1 \/ IsSpace(s[i - 1]))}
TokenAt(s, i) ==
    SubSeq(s, i, CHOOSE j \in i..Len(s) :
                    /\ \A k \in i..j : ~IsSpace(s[k])
                    /\ (j = Len(s) \/ IsSpace(s[j + 1])))
LastTokenStart(s) == CHOOSE i \in TokenStarts(s) : \A j \in TokenStarts(s) : j <= i

\* C19: change-priority takes the last whitespace-delimited token of its
\* input as the new priority and the whole prefix before it, internal spaces
\* included, as the task identifier; an input of one token only is an input
\* error, raised before any lookup or write.
C19_LastTokenIsPriority ==
    cmd = "split" =>
        /\ Cardinality(TokenStarts(input)) >= 2 =>
               /\ ret.exit = "none"
               /\ ret.priority = TokenAt(input, LastTokenStart(input))
               /\ ret.task_id = Trimmed(SubSeq(input, 1, LastTokenStart(input) - 1))
        /\ Cardinality(TokenStarts(input)) = 1 => ret.exit \in {"usage", "one_part"}

\* the positions (1-based) of the tasks whose title is the identifier text,
\* ignoring letter case
TitledAs(tasks, identifier) ==
    {i \in 1..Len(tasks) : SameIgnoringCase(tasks[i].title, identifier)}

\* C20: an identifier that parses as an integer is resolved as a position
\* only: when some task's title equals the identifier text, an out-of-range
\* number still gives not-found, and an in-range number gives the task at
\* that position, whichever task carries the title.
C20_NumberNeverMatchesTitle ==
    (cmd = "find" /\ py_int(input).ok /\ TitledAs(FileTodos(file), input) # {}) =>
        LET v == py_int(input).val
            tasks == FileTodos(file)
        IN  IF 1 <= v /\ v <= Len(tasks)
            THEN ret = [found |-> TRUE, index |-> v - 1, todo |-> tasks[v]]
            ELSE ~ret.found

C20_Witness ==
    /\ cmd = "find" /\ input = <<"2">>
    /\ Len(FileTodos(file)) = 1 /\ FileTodos(file)[1].title = title_2
    /\ ~ret.found

\* an in-range number while another task carries it as its title
C20_WitnessInRange ==
    /\ cmd = "find" /\ input = <<"2">>
    /\ Len(FileTodos(file)) = 2
    /\ FileTodos(file)[1].title = title_2 /\ FileTodos(file)[2].title = title_a
    /\ ret.found /\ ret.index = 1 /\ ret.todo.title = title_a

\* the task a successful append of a one-piece input put at the end of the list
Appended == NowTodos[Len(NowTodos)]

\* C21: when one task description contains the inline priority flag more
\* than once, the stored task's priority is the value of the first occurrence
\* in the text, and no occurrence of the flag remains in the stored title.
C21_FirstFlagWinsNoneRemains ==
    (cmd = "add" /\ outcome.status = "ok" /\ Len(PiecesOf(input)) = 1
       /\ Cardinality(FlagStarts(input)) >= 2) =>
        /\ Len(NowTodos) = Len(PreTodos) + 1
        /\ Appended.priority = str_lower(FlagValue(input, FirstFlag(input)))
        /\ FlagStarts(Appended.title) = {}

\* the first half alone: the first occurrence gives the priority
C21_FirstFlagWins ==
    (cmd = "add" /\ outcome.status = "ok" /\ Len(PiecesOf(input)) = 1
       /\ Cardinality(FlagStarts(input)) >= 2) =>
        Appended.priority = str_lower(FlagValue(input, FirstFlag(input)))

\* part is a contiguous part of whole, up to letter case
ContainsIgnoringCase(whole, part) ==
    \E i \in 1..(Len(whole) + 1) : \E j \in (i - 1)..Len(whole) :
        SameIgnoringCase(SubSeq(whole, i, j), part)

\* the positions of the tasks whose title contains the query
Mentioning(tasks, query) ==
    {i \in 1..Len(tasks) : ContainsIgnoringCase(tasks[i].title, query)}

\* found lists exactly the tasks at the positions in where, in list order
ListsInOrder(found, tasks, where) ==
    /\ Len(found) = Cardinality(where)
    /\ \E at \in [1..Len(found) -> where] :
          /\ \A k \in 1..(Len(found) - 1) : at[k] < at[k + 1]
          /\ \A k \in 1..Len(found) : found[k] = tasks[at[k]]

\* C22: the partial search returns exactly the tasks whose title contains
\* the query ignoring letter case, all of them and in list order, and leaves
\* the list as it was; every task the exact search returns for the same
\* query is among those the partial search returns.
C22_PartialSearchFindsAllMentions ==
    (cmd = "search" /\ ret.partial.done) =>
        /\ ListsInOrder(ret.partial.matches, PreTodos, Mentioning(PreTodos, input))
        /\ NowTodos = PreTodos
        /\ ret.exact.done =>
               \A k \in 1..Len(ret.exact.matches) :
                   \E m \in 1..Len(ret.partial.matches) :
                       ret.partial.matches[m] = ret.exact.matches[k]

\* query 'a' on [titled 'ab', titled 'A', titled 'B a']: all three mention
\* it, only the second is titled so
C22_Witness ==
    /\ cmd = "search" /\ ret.partial.done /\ ret.exact.done
    /\ input = <<"a">>
    /\ PreTodos = <<task_ab, task_A, task_B_a>>
    /\ ret.partial.matches = <<task_ab, task_A, task_B_a>>
    /\ ret.exact.matches = <<task_A>>

\* a query inside a title, with a task that does not mention it in between
C22_WitnessInside ==
    /\ cmd = "search" /\ ret.partial.done
    /\ input = <<"b"," ">>
    /\ PreTodos = <<task_B_a, task_ab, task_B_a>>
    /\ ret.partial.matches = <<task_B_a, task_B_a>>

\* no write of the invocations so far has failed
AllWritten == \A i \in 1..Len(log) : log[i].step # "write_error"

\* C23: for any project and any two non-empty task descriptions A and B
\* without a comma, one append of "A, B" leaves the same project file as an
\* append of A followed by an append of B.
C23_AppendComposesOverCommas ==
    (ret.done /\ ops = 2 /\ AllWritten) => ret.file = file

\* 'a --priority=high' and ' A ' appended to a project of three tasks: both
\* ways the file ends with the tasks a (high) and A (medium)
C23_Witness ==
    /\ ret.done /\ ops = 2 /\ AllWritten
    /\ input = [first |-> in_flag, second |-> d_A_spaced]
    /\ PreTodos = <<task_a, task_A, task_buy_milk>>
    /\ \A i \in 1..Len(log) : log[i].ok
    /\ ret.file = file
    /\ NowTodos = PreTodos \o <<[done |-> FALSE, title |-> title_a, priority |-> high],
                                [done |-> FALSE, title |-> title_A, priority |-> medium]>>

====
